---- MODULE Spec2Model ----
(***************************************************************************)
(* The S-expression to C-call compiler of my-super-tiny-compiler:          *)
(* tokenizer -> parser -> transformer (over traverser) -> codeGenerator.   *)
(* Texts are sequences of one-character strings; cursors are 0-based as    *)
(* in the source; heap objects (AST nodes) are records in a sequence and   *)
(* are referred to by their index, so aliasing of arrays is visible.       *)
(***************************************************************************)
EXTENDS Integers, Sequences, FiniteSets, TLC

\* ------------------------------------------------------------------ bounds
\* Longest input text over the whole alphabet drawn in Init.
MaxLen == 5
\* Longest input text over the core alphabet (no whitespace, no unknown
\* character) drawn in Init.
MaxCoreLen == 6
\* Longest input text (over the whole alphabet) drawn in FairInit.
MaxFairLen == 4
\* Longest token sequence drawn in ParserInit.
MaxTokens == 6
\* How many iterations past the end of the input a runaway inner loop of the
\* tokenizer is followed (the loop itself has no bound in the source).
MaxOverrun == 2
\* How many times the pipeline is run on the same input.
MaxRuns == 2

\* --------------------------------------------------------------- characters
LParen == "("
RParen == ")"
Quote == "\""
\* One representative per character class of the tokenizer; "@" is in none.
Alphabet == {LParen, RParen, " ", "1", Quote, "a", "@"}
\* The characters that make tokens.
CoreAlphabet == {LParen, RParen, "1", Quote, "a"}

\* JavaScript's undefined: what an out-of-range index reads.
Undefined == "undefined"
\* String(undefined), what `value += undefined` appends and what a RegExp tests.
UndefinedText == <<"u", "n", "d", "e", "f", "i", "n", "e", "d">>

\* s[k] of JavaScript, k 0-based: undefined out of range.
At(s, k) == IF k >= 0 /\ k < Len(s) THEN s[k + 1] ELSE Undefined

\* String(c) for a character or undefined.
Text(c) == IF c = Undefined THEN UndefinedText ELSE <<c>>

\* parens.has(char)
IsParen(c) == c \in {LParen, RParen}
\* WHITESPACE.test(char): /\s/ finds no whitespace in "undefined".
IsWhitespace(c) == c = " "
\* NUMBER.test(char): /[0-9]/ finds no digit in "undefined".
IsNumber(c) == c = "1"
\* LETTER.test(char): /[a-z]/i is unanchored and test() converts its argument
\* to a string, so it finds a letter in "undefined".
IsLetter(c) == c = "a" \/ c = Undefined

\* All texts over S of length at most n.
SeqsUpTo(S, n) == UNION {[1..k -> S] : k \in 0..n}

\* ------------------------------------------------------------------- state
VARIABLES
    pc,          \* which function of the pipeline is running
    run,         \* how many runs of the pipeline have been started
    outputs,     \* sample_output of each finished run, in order
    input,       \* sample_input
    tokens,      \* tokenizer: tokens (and the parser's argument)
    tok_i,       \* tokenizer: i
    tok_char,    \* tokenizer: char
    tok_value,   \* tokenizer: value of the literal being read
    tok_mode,    \* tokenizer: which loop the control is in
    ast,         \* parser: the heap of source nodes; ast[1] is the Program
    par_i,       \* parser: i, the cursor shared by every walk()
    stack,       \* parser: the active calls of walk(), innermost last
    newAst,      \* transformer: the heap of target nodes; newAst[1] is the Program
    frames,      \* traverser: the active calls of traverseNode, innermost last
    visits,      \* traverser: each consultation of the visitor, in order
    output,      \* codeGenerator: the text returned
    err          \* the exception that ended the run, or NoError

vars == <<pc, run, outputs, input, tokens, tok_i, tok_char, tok_value, tok_mode,
          ast, par_i, stack, newAst, frames, visits, output, err>>

tokVars == <<tokens, tok_i, tok_char, tok_value, tok_mode>>
parVars == <<ast, par_i, stack>>
traVars == <<newAst, frames, visits>>

\* Source nodes (LispASTNode). A field the object does not have holds the empty
\* text or list; newAstRef = 0 is a node without the _newAstRef property.
LispASTNode(t, v, n) ==
    [type |-> t, value |-> v, name |-> n, params |-> <<>>, body |-> <<>>,
     newAstRef |-> 0]

\* Target nodes (CASTNode); callee and expression are node references (0: not
\* a field of this node), arguments and body lists of them.
CASTNode(t, v, n) ==
    [type |-> t, value |-> v, name |-> n, callee |-> 0, arguments |-> <<>>,
     body |-> <<>>, expression |-> 0]

\* The locals of parser() at its entry: ast = { type: "Program", body: [] }, i = 0.
ParserEntry == [ast |-> <<LispASTNode("Program", <<>>, <<>>)>>, i |-> 0]

NoError == [name |-> "none", message |-> "none"]
TypeError(m) == [name |-> "TypeError", message |-> m]

Token(t, v) == [type |-> t, value |-> v]

\* ------------------------------------------------------------- the pipeline
\* Before the first run: nothing has been called yet.
Idle ==
    /\ pc = "idle"
    /\ run = 0
    /\ outputs = <<>>
    /\ tokens = <<>>
    /\ tok_i = 0
    /\ tok_char = Undefined
    /\ tok_value = <<>>
    /\ tok_mode = "outer"
    /\ ast = <<>>
    /\ par_i = 0
    /\ stack = <<>>
    /\ newAst = <<>>
    /\ frames = <<>>
    /\ visits = <<>>
    /\ output = <<>>
    /\ err = NoError

\* const sample_input = prompt(...): any text. (A null from prompt throws before
\* the pipeline is entered and is not followed here.)
Init ==
    /\ input \in SeqsUpTo(Alphabet, MaxLen) \cup SeqsUpTo(CoreAlphabet, MaxCoreLen)
    /\ Idle

\* Mutant: tokens outlives the call, as a variable of the module would.
TokenizerEntryStale == [tokens |-> tokens, i |-> 0]

\* The locals of tokenizer() at its entry: tokens = [], i = 0.
TokenizerEntry == [tokens |-> <<>>, i |-> 0]

\* const tokens = tokenizer(sample_input): a run of the script begins.
Compile ==
    /\ pc = "idle"
    /\ run < MaxRuns
    /\ run' = run + 1
    /\ pc' = "tokenizer"
    /\ tokens' = TokenizerEntry.tokens
    /\ tok_i' = TokenizerEntry.i
    /\ tok_char' = Undefined
    /\ tok_value' = <<>>
    /\ tok_mode' = "outer"
    /\ UNCHANGED <<outputs, input, parVars, traVars, output, err>>

\* ---------------------------------------------------------------- tokenizer
AtOuter ==
    /\ pc = "tokenizer"
    /\ tok_mode = "outer"
    /\ tok_i < Len(input)

notTokenizer == <<run, outputs, input, parVars, traVars, output>>

\* if (parens.has(char)) { tokens.push(...); ++i; continue }
TokParen ==
    /\ AtOuter
    /\ IsParen(At(input, tok_i))
    /\ tokens' = Append(tokens, Token("paren", <<At(input, tok_i)>>))
    /\ tok_i' = tok_i + 1
    /\ tok_char' = At(input, tok_i)
    /\ UNCHANGED <<pc, tok_value, tok_mode, err, notTokenizer>>

\* if (WHITESPACE.test(char)) { ++i; continue }
TokWhitespace ==
    /\ AtOuter
    /\ ~IsParen(At(input, tok_i))
    /\ IsWhitespace(At(input, tok_i))
    /\ tok_i' = tok_i + 1
    /\ tok_char' = At(input, tok_i)
    /\ UNCHANGED <<pc, tokens, tok_value, tok_mode, err, notTokenizer>>

\* if (NUMBER.test(char)) { value = "" + char; char = input[++i]; ...
TokNumberStart ==
    /\ AtOuter
    /\ IsNumber(At(input, tok_i))
    /\ tok_value' = Text(At(input, tok_i))
    /\ tok_i' = tok_i + 1
    /\ tok_char' = At(input, tok_i + 1)
    /\ tok_mode' = "number"
    /\ UNCHANGED <<pc, tokens, err, notTokenizer>>

\* while (NUMBER.test(char)) { value += char; char = input[++i] }
TokNumberLoop ==
    /\ pc = "tokenizer"
    /\ tok_mode = "number"
    /\ IsNumber(tok_char)
    /\ tok_value' = tok_value \o Text(tok_char)
    /\ tok_i' = tok_i + 1
    /\ tok_char' = At(input, tok_i + 1)
    /\ UNCHANGED <<pc, tokens, tok_mode, err, notTokenizer>>

\* tokens.push({ type: "number", value }); continue
TokNumberEnd ==
    /\ pc = "tokenizer"
    /\ tok_mode = "number"
    /\ ~IsNumber(tok_char)
    /\ tokens' = Append(tokens, Token("number", tok_value))
    /\ tok_mode' = "outer"
    /\ UNCHANGED <<pc, tok_i, tok_char, tok_value, err, notTokenizer>>

\* if (char === '"') { value = ""; char = input[++i]; ...
TokStringStart ==
    /\ AtOuter
    /\ At(input, tok_i) = Quote
    /\ tok_value' = <<>>
    /\ tok_i' = tok_i + 1
    /\ tok_char' = At(input, tok_i + 1)
    /\ tok_mode' = "string"
    /\ UNCHANGED <<pc, tokens, err, notTokenizer>>

\* while (char !== '"') { value += char; char = input[++i] }
\* Nothing in the condition looks at the end of the input.
TokStringLoop ==
    /\ pc = "tokenizer"
    /\ tok_mode = "string"
    /\ tok_char # Quote
    /\ tok_i < Len(input) + MaxOverrun
    /\ tok_value' = tok_value \o Text(tok_char)
    /\ tok_i' = tok_i + 1
    /\ tok_char' = At(input, tok_i + 1)
    /\ UNCHANGED <<pc, tokens, tok_mode, err, notTokenizer>>

\* char = input[++i]; tokens.push({ type: "string", value }); continue
TokStringEnd ==
    /\ pc = "tokenizer"
    /\ tok_mode = "string"
    /\ tok_char = Quote
    /\ tok_i' = tok_i + 1
    /\ tok_char' = At(input, tok_i + 1)
    /\ tokens' = Append(tokens, Token("string", tok_value))
    /\ tok_mode' = "outer"
    /\ UNCHANGED <<pc, tok_value, err, notTokenizer>>

\* if (LETTER.test(char)) { value = "" + char; char = input[++i]; ...
TokNameStart ==
    /\ AtOuter
    /\ IsLetter(At(input, tok_i))
    /\ tok_value' = Text(At(input, tok_i))
    /\ tok_i' = tok_i + 1
    /\ tok_char' = At(input, tok_i + 1)
    /\ tok_mode' = "name"
    /\ UNCHANGED <<pc, tokens, err, notTokenizer>>

\* while (LETTER.test(char)) { value += char; char = input[++i] }
\* Past the end of the input char is undefined, which LETTER.test accepts.
TokNameLoop ==
    /\ pc = "tokenizer"
    /\ tok_mode = "name"
    /\ IsLetter(tok_char)
    /\ tok_i < Len(input) + MaxOverrun
    /\ tok_value' = tok_value \o Text(tok_char)
    /\ tok_i' = tok_i + 1
    /\ tok_char' = At(input, tok_i + 1)
    /\ UNCHANGED <<pc, tokens, tok_mode, err, notTokenizer>>

\* tokens.push({ type: "name", value }); continue
TokNameEnd ==
    /\ pc = "tokenizer"
    /\ tok_mode = "name"
    /\ ~IsLetter(tok_char)
    /\ tokens' = Append(tokens, Token("name", tok_value))
    /\ tok_mode' = "outer"
    /\ UNCHANGED <<pc, tok_i, tok_char, tok_value, err, notTokenizer>>

\* throw new TypeError("Character " + char + " not identified")
TokThrow ==
    /\ AtOuter
    /\ LET c == At(input, tok_i) IN
        /\ ~IsParen(c) /\ ~IsWhitespace(c) /\ ~IsNumber(c) /\ c # Quote /\ ~IsLetter(c)
        /\ tok_char' = c
    /\ err' = TypeError("Character not identified")
    /\ pc' = "error"
    /\ UNCHANGED <<tokens, tok_i, tok_value, tok_mode, notTokenizer>>

\* return tokens; const ast = parser(tokens)
TokReturn ==
    /\ pc = "tokenizer"
    /\ tok_mode = "outer"
    /\ tok_i >= Len(input)
    /\ pc' = "parser"
    /\ ast' = ParserEntry.ast
    /\ par_i' = ParserEntry.i
    /\ stack' = <<>>
    /\ UNCHANGED <<run, outputs, input, tokVars, traVars, output, err>>

\* ------------------------------------------------------------------- parser
\* A call of walk(): node is the CallExpression it is filling (0 before it has
\* made one), token its local variable, start the cursor at its entry.
\* tokens[k] of the parser: undefined (a record of its own here, so that it
\* compares with tokens) out of range.
UndefinedToken == [type |-> Undefined, value |-> <<>>]
TokenAt(k) == IF k >= 0 /\ k < Len(tokens) THEN tokens[k + 1] ELSE UndefinedToken

\* Mutant: the cursor is left where it is.
SameCursor(k) == k

\* ++i
NextCursor(k) == k + 1

WalkCallFrame(k) == [node |-> 0, token |-> TokenAt(k), start |-> k]

Top == stack[Len(stack)]

IsOpen(t) == t # UndefinedToken /\ t.type = "paren" /\ t.value = <<LParen>>
IsClose(t) == t # UndefinedToken /\ t.type = "paren" /\ t.value = <<RParen>>

notParser == <<run, outputs, input, tokVars, traVars, output>>

\* return node: the caller pushes it (ast.body.push(node), or
\* node.params.push(paramNode); token = tokens[i]) with the cursor at k.
ReturnNode(heap, id, k) ==
    /\ par_i' = k
    /\ IF Len(stack) = 1
       THEN /\ ast' = [heap EXCEPT ![1].body = Append(@, id)]
            /\ stack' = <<>>
       ELSE LET caller == stack[Len(stack) - 1] IN
            /\ ast' = [heap EXCEPT ![caller.node].params = Append(@, id)]
            /\ stack' = [SubSeq(stack, 1, Len(stack) - 1) EXCEPT
                            ![Len(stack) - 1].token = TokenAt(k)]

\* while (i < tokens.length) { const node = walk(); ...
ParserLoop ==
    /\ pc = "parser"
    /\ stack = <<>>
    /\ par_i < Len(tokens)
    /\ stack' = <<WalkCallFrame(par_i)>>
    /\ UNCHANGED <<pc, ast, par_i, err, notParser>>

AtWalkTop ==
    /\ pc = "parser"
    /\ stack # <<>>
    /\ Top.node = 0
    /\ Top.token # UndefinedToken

\* if (token.type === "number") { ++i; return { type: "NumberLiteral", ... } }
WalkNumber ==
    /\ AtWalkTop
    /\ Top.token.type = "number"
    /\ ReturnNode(Append(ast, LispASTNode("NumberLiteral", Top.token.value, <<>>)),
                  Len(ast) + 1, NextCursor(par_i))
    /\ UNCHANGED <<pc, err, notParser>>

\* if (token.type === "string") { ++i; return { type: "StringLiteral", ... } }
WalkString ==
    /\ AtWalkTop
    /\ Top.token.type = "string"
    /\ ReturnNode(Append(ast, LispASTNode("StringLiteral", Top.token.value, <<>>)),
                  Len(ast) + 1, NextCursor(par_i))
    /\ UNCHANGED <<pc, err, notParser>>

\* if (token is "(") { token = tokens[++i]; node = { CallExpression,
\* name: token.value, params: [] }; token = tokens[++i]; ...
WalkCall ==
    /\ AtWalkTop
    /\ IsOpen(Top.token)
    /\ TokenAt(par_i + 1) # UndefinedToken
    /\ ast' = Append(ast, LispASTNode("CallExpression", <<>>,
                                      TokenAt(par_i + 1).value))
    /\ par_i' = par_i + 2
    /\ stack' = [stack EXCEPT ![Len(stack)].node = Len(ast) + 1,
                              ![Len(stack)].token = TokenAt(par_i + 2)]
    /\ UNCHANGED <<pc, err, notParser>>

\* token = tokens[++i] read past the last token, then token.value: the runtime
\* throws its own TypeError.
WalkCalleeUndefined ==
    /\ AtWalkTop
    /\ IsOpen(Top.token)
    /\ TokenAt(par_i + 1) = UndefinedToken
    /\ par_i' = par_i + 1
    /\ stack' = [stack EXCEPT ![Len(stack)].token = UndefinedToken]
    /\ err' = TypeError("Cannot read properties of undefined")
    /\ pc' = "error"
    /\ UNCHANGED <<ast, notParser>>

\* throw new TypeError("Token not identified: " + token.type + " " + token.value)
WalkThrow ==
    /\ AtWalkTop
    /\ Top.token.type \notin {"number", "string"}
    /\ ~IsOpen(Top.token)
    /\ err' = TypeError("Token not identified")
    /\ pc' = "error"
    /\ UNCHANGED <<ast, par_i, stack, notParser>>

\* while (token is not ")") { const paramNode = walk(); ...
WalkParam ==
    /\ pc = "parser"
    /\ stack # <<>>
    /\ Top.node # 0
    /\ Top.token # UndefinedToken
    /\ ~IsClose(Top.token)
    /\ stack' = Append(stack, WalkCallFrame(par_i))
    /\ UNCHANGED <<pc, ast, par_i, err, notParser>>

\* ++i; return node
WalkClose ==
    /\ pc = "parser"
    /\ stack # <<>>
    /\ Top.node # 0
    /\ IsClose(Top.token)
    /\ ReturnNode(ast, Top.node, NextCursor(par_i))
    /\ UNCHANGED <<pc, err, notParser>>

\* token.type with token undefined (tokens[i] read past the last token): the
\* runtime throws its own TypeError.
WalkTokenUndefined ==
    /\ pc = "parser"
    /\ stack # <<>>
    /\ Top.token = UndefinedToken
    /\ err' = TypeError("Cannot read properties of undefined")
    /\ pc' = "error"
    /\ UNCHANGED <<ast, par_i, stack, notParser>>

\* return ast; const newAst = transformer(ast)
ParserReturn ==
    /\ pc = "parser"
    /\ stack = <<>>
    /\ par_i >= Len(tokens)
    /\ pc' = "transformer"
    /\ UNCHANGED <<ast, par_i, stack, err, notParser>>

\* ------------------------------------------------- traverser and transformer
\* A call of traverseNode(node, parent); parent = 0 is null. idx is the place
\* of forEach in the node's children.
TraverseFrame(n, p) == [node |-> n, parent |-> p, idx |-> 1]

\* A point where traverseNode looks up the visitor's enter or exit method for
\* a node (lines 190 and 208), with the arguments the method is given.
Visit(h, n, p) == [hook |-> h, node |-> n, parent |-> p]

\* Mutant: the children are walked last to first.
ChildrenReversed(n) ==
    LET c == ast[n].body \o ast[n].params
    IN  [k \in 1..Len(c) |-> c[Len(c) + 1 - k]]

\* The array traverseNode hands to traverseArray: body, params, or none. The
\* switch's default (throw new TypeError()) needs a node type the parser never
\* makes.
Children(n) ==
    IF ast[n].type = "Program" THEN ast[n].body
    ELSE IF ast[n].type = "CallExpression" THEN ast[n].params
    ELSE <<>>

\* parent?._newAstRef?.push(x): the array _newAstRef aliases is the body of the
\* target Program or the arguments of a target CallExpression.
PushToParent(heap, parent, x) ==
    IF parent = 0 THEN heap
    ELSE IF ast[parent].newAstRef = 0 THEN heap
    ELSE LET r == ast[parent].newAstRef IN
         IF heap[r].type = "Program"
         THEN [heap EXCEPT ![r].body = Append(@, x)]
         ELSE [heap EXCEPT ![r].arguments = Append(@, x)]

notTraverser == <<run, outputs, input, tokVars, par_i, stack, output, err>>

\* newAst = { type: "Program", body: [] }; ast._newAstRef = newAst.body;
\* traverser(ast, {...}) calls traverseNode(ast, null), and the visitor has no
\* method for Program.
Transformer ==
    /\ pc = "transformer"
    /\ newAst' = <<CASTNode("Program", <<>>, <<>>)>>
    /\ ast' = [ast EXCEPT ![1].newAstRef = 1]
    /\ frames' = <<TraverseFrame(1, 0)>>
    /\ visits' = <<Visit("enter", 1, 0)>>
    /\ pc' = "traverser"
    /\ UNCHANGED notTraverser

TopFrame == frames[Len(frames)]

\* forEach reaches the next child: traverseNode(child, parent).
AtChild(t) ==
    /\ pc = "traverser"
    /\ frames # <<>>
    /\ TopFrame.idx <= Len(Children(TopFrame.node))
    /\ ast[Children(TopFrame.node)[TopFrame.idx]].type = t

Child == Children(TopFrame.node)[TopFrame.idx]

EnterChild ==
    /\ frames' = Append([frames EXCEPT ![Len(frames)].idx = @ + 1],
                        TraverseFrame(Child, TopFrame.node))
    /\ visits' = Append(visits, Visit("enter", Child, TopFrame.node))

\* NumberLiteral: { enter(node, parent) { parent?._newAstRef?.push({...}) } }
EnterNumberLiteral ==
    /\ AtChild("NumberLiteral")
    /\ newAst' = PushToParent(
            Append(newAst, CASTNode("NumberLiteral", ast[Child].value, <<>>)),
            TopFrame.node, Len(newAst) + 1)
    /\ EnterChild
    /\ UNCHANGED <<pc, ast, notTraverser>>

\* StringLiteral: { enter(node, parent) { parent?._newAstRef?.push({...}) } }
EnterStringLiteral ==
    /\ AtChild("StringLiteral")
    /\ newAst' = PushToParent(
            Append(newAst, CASTNode("StringLiteral", ast[Child].value, <<>>)),
            TopFrame.node, Len(newAst) + 1)
    /\ EnterChild
    /\ UNCHANGED <<pc, ast, notTraverser>>

\* Mutant: every call is wrapped, also one used as an argument.
WrapsAlways(parent) == TRUE

\* Mutant: no call is wrapped.
WrapsNever(parent) == FALSE

\* if (parent?.type !== "CallExpression") expression = { ExpressionStatement }
WrapsInStatement(parent) ==
    IF parent = 0 THEN TRUE ELSE ast[parent].type # "CallExpression"

\* CallExpression: { enter(node, parent) { expression = { CallExpression,
\* callee: { Identifier, name }, arguments: [] };
\* node._newAstRef = expression.arguments; wrap; parent?._newAstRef?.push } }
EnterCallExpression ==
    /\ AtChild("CallExpression")
    /\ LET n == Len(newAst)
           callee == CASTNode("Identifier", <<>>, ast[Child].name)
           call == [CASTNode("CallExpression", <<>>, <<>>) EXCEPT !.callee = n + 1]
           stmt == [CASTNode("ExpressionStatement", <<>>, <<>>) EXCEPT
                       !.expression = n + 2]
       IN  /\ ast' = [ast EXCEPT ![Child].newAstRef = n + 2]
           /\ newAst' =
                IF WrapsInStatement(TopFrame.node)
                THEN PushToParent(newAst \o <<callee, call, stmt>>,
                                  TopFrame.node, n + 3)
                ELSE PushToParent(newAst \o <<callee, call>>, TopFrame.node, n + 2)
    /\ EnterChild
    /\ UNCHANGED <<pc, notTraverser>>

\* The children are done: the exit method is looked up, traverseNode returns;
\* when the root's call returns, so do traverser and transformer:
\* const sample_output = codeGenerator(newAst).
ExitNode ==
    /\ pc = "traverser"
    /\ frames # <<>>
    /\ TopFrame.idx > Len(Children(TopFrame.node))
    /\ visits' = Append(visits, Visit("exit", TopFrame.node, TopFrame.parent))
    /\ frames' = SubSeq(frames, 1, Len(frames) - 1)
    /\ pc' = IF Len(frames) = 1 THEN "codeGenerator" ELSE pc
    /\ UNCHANGED <<ast, newAst, notTraverser>>

\* ------------------------------------------------------------ codeGenerator
RECURSIVE Join(_, _)
\* parts.join(sep)
Join(parts, sep) ==
    IF parts = <<>> THEN <<>>
    ELSE IF Len(parts) = 1 THEN parts[1]
    ELSE parts[1] \o sep \o Join(Tail(parts), sep)

\* Mutant: the quotes are left out.
Unquoted(v) == v

\* '"' + ast.value + '"'
Quoted(v) == <<Quote>> \o v \o <<Quote>>

RECURSIVE codeGenerator(_, _)
\* codeGenerator(ast) for the node n of the heap h. The switch's default
\* (throw new TypeError(ast.type)) is the CASE having no other arm.
codeGenerator(h, n) ==
    LET node == h[n] IN
    CASE node.type = "NumberLiteral" -> node.value
      [] node.type = "StringLiteral" -> Quoted(node.value)
      [] node.type = "Identifier" -> node.name
      [] node.type = "CallExpression" ->
            codeGenerator(h, node.callee) \o <<LParen>>
            \o Join([k \in 1..Len(node.arguments) |->
                        codeGenerator(h, node.arguments[k])], <<",", " ">>)
            \o <<RParen>>
      [] node.type = "ExpressionStatement" ->
            codeGenerator(h, node.expression) \o <<";">>
      [] node.type = "Program" ->
            Join([k \in 1..Len(node.body) |-> codeGenerator(h, node.body[k])],
                 <<"\n">>)

\* const sample_output = codeGenerator(newAst)
CodeGenerator ==
    /\ pc = "codeGenerator"
    /\ output' = codeGenerator(newAst, 1)
    /\ pc' = "done"
    /\ UNCHANGED <<run, outputs, input, tokVars, parVars, traVars, err>>

\* console.log(sample_output): the run is over.
Log ==
    /\ pc = "done"
    /\ outputs' = Append(outputs, output)
    /\ pc' = "idle"
    /\ UNCHANGED <<run, input, tokVars, parVars, traVars, output, err>>

\* ------------------------------------------------------------ specifications
Tokenizer ==
    \/ TokParen \/ TokWhitespace
    \/ TokNumberStart \/ TokNumberLoop \/ TokNumberEnd
    \/ TokStringStart \/ TokStringLoop \/ TokStringEnd
    \/ TokNameStart \/ TokNameLoop \/ TokNameEnd
    \/ TokThrow \/ TokReturn

Parser ==
    \/ ParserLoop \/ WalkNumber \/ WalkString \/ WalkCall \/ WalkCalleeUndefined
    \/ WalkThrow \/ WalkParam \/ WalkClose \/ WalkTokenUndefined \/ ParserReturn

Traverser ==
    \/ Transformer \/ EnterNumberLiteral \/ EnterStringLiteral
    \/ EnterCallExpression \/ ExitNode

Next == Compile \/ Tokenizer \/ Parser \/ Traverser \/ CodeGenerator \/ Log

Spec == Init /\ [][Next]_vars

\* The script is single-threaded and synchronous: a step that can be taken is
\* taken.
FairInit ==
    /\ input \in SeqsUpTo(Alphabet, MaxFairLen)
    /\ Idle

FairSpec == FairInit /\ [][Next]_vars /\ WF_vars(Next)

\* The parser alone, on every token sequence, whether or not the tokenizer can
\* produce it.
TokenAlphabet ==
    {Token("paren", <<LParen>>), Token("paren", <<RParen>>), Token("number", <<"1">>),
     Token("string", <<>>), Token("name", <<"a">>)}

ParserInit ==
    /\ tokens \in SeqsUpTo(TokenAlphabet, MaxTokens)
    /\ pc = "parser"
    /\ run = 1
    /\ outputs = <<>>
    /\ input = <<>>
    /\ tok_i = 0
    /\ tok_char = Undefined
    /\ tok_value = <<>>
    /\ tok_mode = "outer"
    /\ ast = ParserEntry.ast
    /\ par_i = ParserEntry.i
    /\ stack = <<>>
    /\ newAst = <<>>
    /\ frames = <<>>
    /\ visits = <<>>
    /\ output = <<>>
    /\ err = NoError

ParserNext == Parser

ParserSpec == ParserInit /\ [][ParserNext]_vars

FairParserSpec == ParserSpec /\ WF_vars(ParserNext)

\* ------------------------------------------------------------------ claims
\* The source children of a node as the node declares them.
DeclaredChildren(n) == ast[n].body \o ast[n].params

Elements(list) == {list[k] : k \in 1..Len(list)}

\* The source node that holds n among its children; 0 for the root.
SourceParent(n) ==
    IF \E p \in 1..Len(ast) : n \in Elements(DeclaredChildren(p))
    THEN CHOOSE p \in 1..Len(ast) : n \in Elements(DeclaredChildren(p))
    ELSE 0

RECURSIVE SplitAt(_, _)
\* text.split(sep) for a one-character sep.
SplitAt(text, sep) ==
    IF \A k \in 1..Len(text) : text[k] # sep THEN <<text>>
    ELSE LET k == CHOOSE j \in 1..Len(text) :
                    text[j] = sep /\ \A m \in 1..(j - 1) : text[m] # sep
         IN  <<SubSeq(text, 1, k - 1)>> \o SplitAt(SubSeq(text, k + 1, Len(text)), sep)

StartsWith(text, prefix) ==
    Len(prefix) <= Len(text) /\ SubSeq(text, 1, Len(prefix)) = prefix

EndsWith(text, c) == text # <<>> /\ text[Len(text)] = c

TopLevelCalls == SelectSeq(ast[1].body, LAMBDA n : ast[n].type = "CallExpression")

Statements ==
    SelectSeq(newAst[1].body, LAMBDA n : newAst[n].type = "ExpressionStatement")

StatementLines == SelectSeq(SplitAt(output, "\n"), LAMBDA l : EndsWith(l, ";"))

\* C1: when a run has generated its output, the top-level calls of the source
\* Program and the ExpressionStatements of the target Program are as many, the
\* k-th statement wraps the target call built for the k-th top-level source
\* call (same callee name), and the k-th line of the output that ends in ";"
\* is the text of that statement, beginning with the call's name and "(".
C1_TopLevelCallsBecomeStatements ==
    pc = "done" =>
        /\ Len(Statements) = Len(TopLevelCalls)
        /\ Len(StatementLines) = Len(TopLevelCalls)
        /\ \A k \in 1..Len(TopLevelCalls) :
            LET src == ast[TopLevelCalls[k]]
                call == newAst[Statements[k]].expression
            IN  /\ call = src.newAstRef
                /\ newAst[call].type = "CallExpression"
                /\ newAst[newAst[call].callee].name = src.name
                /\ StatementLines[k] = codeGenerator(newAst, Statements[k])
                /\ StartsWith(StatementLines[k], src.name \o <<LParen>>)

\* Two top-level calls have been compiled.
C1_Witness == pc = "done" /\ Len(TopLevelCalls) >= 2

IsWrapped(t) ==
    \E s \in 1..Len(newAst) :
        newAst[s].type = "ExpressionStatement" /\ newAst[s].expression = t

\* C2: after the transform, the target call of every source CallExpression is
\* wrapped in an ExpressionStatement exactly when the source parent is the
\* Program; under a CallExpression parent it is itself an element of the
\* parent's arguments and its text ends in ")"; and in the output a ";" only
\* stands at the end of a line.
C2_OnlyTopLevelCallsAreWrapped ==
    /\ pc \in {"codeGenerator", "done"} =>
        \A n \in 1..Len(ast) : ast[n].type = "CallExpression" =>
            LET t == ast[n].newAstRef
                p == SourceParent(n)
            IN  /\ t # 0
                /\ p # 0
                /\ newAst[t].type = "CallExpression"
                /\ IsWrapped(t) <=> ast[p].type = "Program"
                /\ ast[p].type = "CallExpression" =>
                    /\ t \in Elements(newAst[ast[p].newAstRef].arguments)
                    /\ EndsWith(codeGenerator(newAst, t), RParen)
    /\ pc = "done" =>
        \A k \in 1..Len(output) :
            output[k] = ";" => (k = Len(output) \/ output[k + 1] = "\n")

\* A call used as an argument has been compiled.
C2_Witness ==
    /\ pc = "done"
    /\ \E n \in 1..Len(ast) :
        /\ ast[n].type = "CallExpression"
        /\ SourceParent(n) # 0
        /\ ast[SourceParent(n)].type = "CallExpression"

\* C3: inside a string literal the tokenizer's cursor never passes the end of
\* the input: at the end of the input it fails with UnterminatedString, and
\* no string token is pushed for a literal that has no closing quote.
C3_UnterminatedStringFails ==
    /\ (pc = "tokenizer" /\ tok_mode = "string") => tok_i <= Len(input)
    /\ (pc = "error" /\ tok_mode = "string") => err.name = "UnterminatedString"

\* C4: no call of walk() ever holds a token read from outside the token
\* sequence, and a parse that ends at or beyond the end of the tokens ends
\* with an UnexpectedEndOfInput error.
C4_EndOfInputIsReported ==
    /\ \A k \in 1..Len(stack) : stack[k].token # UndefinedToken
    /\ (pc = "error" /\ par_i >= Len(tokens) /\ stack # <<>>) =>
            err.name = "UnexpectedEndOfInput"

\* C7: every CallExpression of a tree the parser has returned has a name that
\* is not the empty text.
C7_CallNameNonEmpty ==
    pc = "transformer" =>
        \A n \in 1..Len(ast) : ast[n].type = "CallExpression" => ast[n].name # <<>>

\* C8: no step of the transformer or of the traversal it drives changes a
\* source node.
C8_SourceTreeUnchanged == [][(pc \in {"transformer", "traverser"}) => (ast' = ast)]_vars

RECURSIVE Descendants(_)
Descendants(n) ==
    Elements(DeclaredChildren(n))
        \cup UNION {Descendants(c) : c \in Elements(DeclaredChildren(n))}

VisitsOf(h, n) == {k \in 1..Len(visits) : visits[k].hook = h /\ visits[k].node = n}
EnterOf(n) == CHOOSE k \in VisitsOf("enter", n) : TRUE
ExitOf(n) == CHOOSE k \in VisitsOf("exit", n) : TRUE

\* C9: when the traversal is over, every node of the source tree has been
\* entered once and exited once; a node is entered before each of its
\* descendants is entered and exited after each of them is exited; of two
\* consecutive children the first is exited before the second is entered; and
\* every visit was given the node's direct parent, null for the root only.
C9_DepthFirstInDeclaredOrder ==
    pc \in {"codeGenerator", "done"} =>
        /\ \A n \in 1..Len(ast) :
            /\ Cardinality(VisitsOf("enter", n)) = 1
            /\ Cardinality(VisitsOf("exit", n)) = 1
            /\ EnterOf(n) < ExitOf(n)
            /\ \A d \in Descendants(n) :
                EnterOf(n) < EnterOf(d) /\ ExitOf(d) < ExitOf(n)
            /\ \A j \in 1..(Len(DeclaredChildren(n)) - 1) :
                ExitOf(DeclaredChildren(n)[j]) < EnterOf(DeclaredChildren(n)[j + 1])
        /\ \A k \in 1..Len(visits) :
            /\ visits[k].parent = SourceParent(visits[k].node)
            /\ visits[k].parent = 0 <=> visits[k].node = 1

\* A traversal is over of a tree in which a node has two children and one of
\* them a child of its own.
C9_Witness ==
    /\ pc = "codeGenerator"
    /\ \E n \in 1..Len(ast) :
        /\ Len(DeclaredChildren(n)) >= 2
        /\ \E c \in Elements(DeclaredChildren(n)) : DeclaredChildren(c) # <<>>

RECURSIVE SourceLeaves(_)
\* The literal nodes of the source tree under n, left to right.
SourceLeaves(n) ==
    IF ast[n].type \in {"NumberLiteral", "StringLiteral"} THEN <<n>>
    ELSE Join([k \in 1..Len(DeclaredChildren(n)) |->
                SourceLeaves(DeclaredChildren(n)[k])], <<>>)

RECURSIVE TargetLeaves(_)
\* The literal nodes of the target tree under n, left to right.
TargetLeaves(n) ==
    LET node == newAst[n]
        below == node.body \o (IF node.expression = 0 THEN <<>> ELSE <<node.expression>>)
                    \o node.arguments
    IN  IF node.type \in {"NumberLiteral", "StringLiteral"} THEN <<n>>
        ELSE Join([k \in 1..Len(below) |-> TargetLeaves(below[k])], <<>>)

RECURSIVE IsCallee(_)
\* The k-th token follows a "(" that opens a call: walk() takes its text as
\* the name of the call, whatever its type.
IsCallee(k) == k > 1 /\ IsOpen(tokens[k - 1]) /\ ~IsCallee(k - 1)

TokenIndices == [k \in 1..Len(tokens) |-> k]

\* The number and string tokens, by index, in order.
ValueTokens ==
    SelectSeq(TokenIndices, LAMBDA k : tokens[k].type \in {"number", "string"})

\* Those of them that do not stand in the callee position.
LiteralTokens == SelectSeq(ValueTokens, LAMBDA k : ~IsCallee(k))

\* What the claim expects in the output for a token: the digit run, or the
\* interior text in one pair of double quotes.
Expected(t) ==
    IF t.type = "number" THEN t.value ELSE <<Quote>> \o t.value \o <<Quote>>

LeafType(t) == IF t.type = "number" THEN "NumberLiteral" ELSE "StringLiteral"

\* The least position >= from at which piece stands in text; 0 if none.
FindFrom(piece, text, from) ==
    LET at == {p \in from..(Len(text) - Len(piece) + 1) :
                    SubSeq(text, p, p + Len(piece) - 1) = piece}
    IN  IF at = {} THEN 0 ELSE CHOOSE p \in at : \A q \in at : p <= q

RECURSIVE OccurInOrder(_, _, _)
\* The pieces stand in text one after the other, without overlap, from `from` on.
OccurInOrder(pieces, text, from) ==
    IF pieces = <<>> THEN TRUE
    ELSE LET p == FindFrom(Head(pieces), text, from)
         IN  p # 0 /\ OccurInOrder(Tail(pieces), text, p + Len(Head(pieces)))

\* The tokens toks (indices) are the leaves of the source tree and of the
\* target tree, one to one and in order, with type and text unchanged, and the
\* output holds their expected texts in that order.
RoundTrip(toks) ==
    LET src == SourceLeaves(1)
        tgt == TargetLeaves(1)
    IN  /\ Len(src) = Len(toks)
        /\ Len(tgt) = Len(toks)
        /\ \A k \in 1..Len(toks) :
            /\ ast[src[k]].type = LeafType(tokens[toks[k]])
            /\ ast[src[k]].value = tokens[toks[k]].value
            /\ newAst[tgt[k]].type = LeafType(tokens[toks[k]])
            /\ newAst[tgt[k]].value = tokens[toks[k]].value
            /\ codeGenerator(newAst, tgt[k]) = Expected(tokens[toks[k]])
        /\ OccurInOrder([k \in 1..Len(toks) |-> Expected(tokens[toks[k]])], output, 1)

\* C6 as stated: every number and string token of a compiled input is a leaf
\* of the source tree and of the target tree with its text unchanged, and
\* stands in the output as its digit run or in one pair of quotes.
C6_EveryValueTokenRoundTrips == pc = "done" => RoundTrip(ValueTokens)

\* C6, amended: the same of every number and string token that does not
\* directly follow the "(" that opens a call.
C6_LiteralTokensRoundTrip == pc = "done" => RoundTrip(LiteralTokens)

\* A number literal and a string literal have been compiled.
C6_Witness ==
    /\ pc = "done"
    /\ \E j, k \in Elements(LiteralTokens) :
        tokens[j].type = "number" /\ tokens[k].type = "string"

\* The grammar of valid programs, read off the text directly:
\*   Program := Node*      Node := NUMBER | STRING | '(' NAME Node* ')'
\* with whitespace allowed between tokens. Positions are 1-based; a result of
\* 0 says that no node (or parameter list) starts at the position.
RECURSIVE SkipWhile(_, _, _)
\* The first position >= k of s whose character is not in class.
SkipWhile(s, k, class) ==
    IF k <= Len(s) /\ s[k] \in class THEN SkipWhile(s, k + 1, class) ELSE k

RECURSIVE NodeEnd(_, _)
RECURSIVE ParamsEnd(_, _)
\* The position after the node that starts at k.
NodeEnd(s, k) ==
    IF k > Len(s) THEN 0
    ELSE IF s[k] = "1" THEN SkipWhile(s, k, {"1"})
    ELSE IF s[k] = Quote THEN
        LET q == SkipWhile(s, k + 1, Alphabet \ {Quote})
        IN  IF q > Len(s) THEN 0 ELSE q + 1
    ELSE IF s[k] = LParen THEN
        LET n == SkipWhile(s, k + 1, {" "})
        IN  IF n <= Len(s) /\ s[n] = "a"
            THEN ParamsEnd(s, SkipWhile(s, n, {"a"}))
            ELSE 0
    ELSE 0

\* The position after the ")" that closes the parameters that start at k.
ParamsEnd(s, k) ==
    LET n == SkipWhile(s, k, {" "})
    IN  IF n > Len(s) THEN 0
        ELSE IF s[n] = RParen THEN n + 1
        ELSE LET e == NodeEnd(s, n)
             IN  IF e = 0 THEN 0 ELSE ParamsEnd(s, e)

RECURSIVE IsProgramFrom(_, _)
IsProgramFrom(s, k) ==
    LET n == SkipWhile(s, k, {" "})
    IN  IF n > Len(s) THEN TRUE
        ELSE LET e == NodeEnd(s, n)
             IN  e # 0 /\ IsProgramFrom(s, e)

IsValidProgram(s) == IsProgramFrom(s, 1)

\* Every run started has ended with its output logged.
AllRunsDone == pc = "idle" /\ run = MaxRuns /\ Len(outputs) = MaxRuns

\* C5: on a valid program every run of the pipeline ends with an output, and
\* all runs on the same input end with the same output.
C5_TerminatesAndDeterministic ==
    /\ IsValidProgram(input) ~> AllRunsDone
    /\ [](\A j, k \in 1..Len(outputs) : outputs[j] = outputs[k])

\* Two runs on a valid program with a call in it have ended.
C5_Witness ==
    /\ IsValidProgram(input)
    /\ Len(outputs) >= 2
    /\ \E n \in 1..Len(ast) : ast[n].type = "CallExpression"

\* C10: on every token sequence the parser ends, by returning or by an error;
\* no step moves the cursor back; a call of walk() that returns leaves the
\* cursor beyond where the call found it; and when the parser returns the
\* cursor equals the number of tokens.
C10_ParserTerminates ==
    /\ <>(pc # "parser")
    /\ [][par_i' >= par_i]_vars
    /\ [][(Len(stack') < Len(stack)) => (par_i' > Top.start)]_vars
    /\ [](pc = "transformer" => par_i = Len(tokens))

\* The parser has returned a tree in which a call is a parameter of a call.
C10_Witness ==
    /\ pc = "transformer"
    /\ \E n \in 1..Len(ast) :
        /\ ast[n].type = "CallExpression"
        /\ \E c \in Elements(ast[n].params) : ast[c].type = "CallExpression"

====
